---- MODULE Spec2Model ----
(***************************************************************************)
(* A model of the Kubernetes endpoints round-robin load balancer of        *)
(* src/endpoints.go: the backend set and cursor behind lb.mu, the          *)
(* caller-invoked SyncEndpoints, the reconcile loop, the watch loop with   *)
(* its inner connect/stream task, and Shutdown.                            *)
(*                                                                         *)
(* Every step that runs under lb.mu (Next, Endpoints, update) is one       *)
(* atomic action.  A network call is two steps: the request is in flight   *)
(* (pc = "get", "connect", "decode") and then returns with an outcome the  *)
(* environment chooses.  errorLog is an output sink: what is written to it *)
(* is not kept.                                                            *)
(***************************************************************************)
EXTENDS Integers, Sequences, FiniteSets, TLC

(***************************************************************************)
(* Bounds of the model.                                                    *)
(***************************************************************************)
\* the longest address list a registry object carries
MaxAddrs == 2
\* the longest run of events one watch connection delivers before it ends
MaxEvents == 3
\* Next() calls recorded between two replacements of the backend set
MaxCalls == MaxAddrs + 1
\* the longest port list of a subset handed to formatEndpoints on its own
MaxPorts == 2

(***************************************************************************)
(* strconv.FormatInt(n, 10): a decimal string is the sequence of its       *)
(* characters; "" is the empty sequence.                                   *)
(***************************************************************************)
DigitChars == <<"0", "1", "2", "3", "4", "5", "6", "7", "8", "9">>

RECURSIVE FormatUint(_, _)
FormatUint(n, base) ==
    IF n < base
    THEN <<DigitChars[n + 1]>>
    ELSE Append(FormatUint(n \div base, base), DigitChars[(n % base) + 1])

FormatInt(n, base) ==
    IF n < 0 THEN <<"-">> \o FormatUint(-n, base) ELSE FormatUint(n, base)

(***************************************************************************)
(* Endpoint{}: the zero value Next returns with ErrNoEndpoints.            *)
(***************************************************************************)
ZeroEndpoint == [Host |-> "", Port |-> <<>>, Ports |-> <<>>]

nil == [kind |-> "nil"]
ErrNoEndpoints == [kind |-> "endpoints: no endpoints available"]
ErrMissingServiceName == [kind |-> "endpoints: missing service name"]

DefaultAPIAddr == "127.0.0.1:8001"
DefaultNamespace == "default"

(***************************************************************************)
(* formatEndpoints: the named-port map is filled in port order, a later    *)
(* port of the same name overwriting an earlier one.                       *)
(***************************************************************************)
RECURSIVE namedPorts(_, _)
namedPorts(ports, m) ==
    IF ports = <<>>
    THEN m
    ELSE LET p == Head(ports)
             m2 == IF p.Name # ""
                   THEN [n \in (DOMAIN m) \cup {p.Name} |->
                            IF n = p.Name THEN FormatInt(p.Port, 10) ELSE m[n]]
                   ELSE m
         IN  namedPorts(Tail(ports), m2)

\* a slip: the addresses of every subset are appended, not those of subsets[0]
RECURSIVE allAddresses(_)
allAddresses(subsets) ==
    IF subsets = <<>> THEN <<>>
    ELSE Head(subsets).Addresses \o allAddresses(Tail(subsets))

formatEndpointsEverySubset(e) ==
    IF Len(e.Subsets) = 0
    THEN <<>>
    ELSE LET s == e.Subsets[1]
             port == IF Len(s.Ports) > 0
                     THEN FormatInt(s.Ports[1].Port, 10)
                     ELSE <<>>
             ports == IF Len(s.Ports) > 0 THEN namedPorts(s.Ports, <<>>) ELSE <<>>
             addresses == allAddresses(e.Subsets)
         IN  [i \in 1..Len(addresses) |->
                [Host |-> addresses[i].IP, Port |-> port, Ports |-> ports]]

formatEndpoints(e) ==
    IF Len(e.Subsets) = 0
    THEN <<>>
    ELSE LET s == e.Subsets[1]
             port == IF Len(s.Ports) > 0
                     THEN FormatInt(s.Ports[1].Port, 10)
                     ELSE <<>>
             ports == IF Len(s.Ports) > 0 THEN namedPorts(s.Ports, <<>>) ELSE <<>>
         IN  [i \in 1..Len(s.Addresses) |->
                [Host |-> s.Addresses[i].IP, Port |-> port, Ports |-> ports]]

(***************************************************************************)
(* The registry objects the environment answers with: one for every        *)
(* address count 0..MaxAddrs, with different hosts and port lists, some    *)
(* with a second subset, and one whose only subset has no address.         *)
(***************************************************************************)
Hosts == <<"10.0.0.1", "10.0.0.2", "10.0.0.3", "10.0.0.4", "10.0.0.5",
           "10.0.0.6", "10.0.0.7">>

PortLists == << <<[Name |-> "http", Port |-> 8080]>>,
                <<>>,
                <<[Name |-> "", Port |-> 80], [Name |-> "metrics", Port |-> 9090]>> >>

SubsetOfSize(n) ==
    [Addresses |-> [i \in 1..n |-> [IP |-> Hosts[((n + i) % Len(Hosts)) + 1]]],
     Ports     |-> PortLists[(n % Len(PortLists)) + 1]]

ObjectOfSize(n) ==
    [Message |-> "",
     Subsets |-> IF n = 0 THEN <<>>
                 ELSE IF n % 2 = 1 THEN <<SubsetOfSize(n), SubsetOfSize(n + 1)>>
                 ELSE <<SubsetOfSize(n)>>]

NoAddressObject ==
    [Message |-> "", Subsets |-> <<[Addresses |-> <<>>, Ports |-> PortLists[3]]>>]

RegistryObjects == {ObjectOfSize(n) : n \in 0..MaxAddrs} \cup {NoAddressObject}

(***************************************************************************)
(* What a watch connection delivers: update events that walk through the   *)
(* registry objects in a cycle from the object the connection starts at,   *)
(* an ERROR event, or bytes the decoder cannot read (malformed data, EOF,  *)
(* a dropped or cancelled connection).                                     *)
(***************************************************************************)
EventTypes == <<"ADDED", "MODIFIED", "DELETED">>

EventAt(first, i) ==
    [json   |-> "ok",
     Type   |-> EventTypes[(i % Len(EventTypes)) + 1],
     Object |-> ObjectOfSize((first + i - 1) % (MaxAddrs + 1))]

ErrorEvent ==
    [json   |-> "ok",
     Type   |-> "ERROR",
     Object |-> [Message |-> "too old resource version", Subsets |-> <<>>]]

Malformed == [json |-> "malformed", Type |-> "", Object |-> ObjectOfSize(0)]

NextItems(first, n) ==
    {Malformed, ErrorEvent} \cup (IF n < MaxEvents THEN {EventAt(first, n + 1)} ELSE {})

\* the bodies a 200 answer to the endpoints GET may carry
SyncBodies ==
    {Malformed} \cup {[json |-> "ok", Type |-> "", Object |-> o] : o \in RegistryObjects}

(***************************************************************************)
(* The answers of the API server to one GET, and get()'s classification.   *)
(***************************************************************************)
Responses ==
    { [transport |-> "fail", status |-> 0, readable |-> FALSE,
       payload |-> [json |-> "malformed", Message |-> "", Code |-> 0]],
      [transport |-> "ok", status |-> 200, readable |-> TRUE,
       payload |-> [json |-> "malformed", Message |-> "", Code |-> 0]],
      [transport |-> "ok", status |-> 404, readable |-> TRUE,
       payload |-> [json |-> "ok", Message |-> "not found", Code |-> 404]] }

endpointsPath(namespace, svc) == <<"/api/v1/namespaces/", namespace, "/endpoints/", svc>>
endpointsWatchPath(namespace, svc) ==
    <<"/api/v1/watch/namespaces/", namespace, "/endpoints/", svc>>

RequestURL(apiAddr, path) == <<"http://", apiAddr>> \o path

SyncError(url, message, code) ==
    [kind |-> "SyncError", URL |-> url, Message |-> message, Code |-> code]

\* a slip: the SyncError always carries resp.StatusCode, never the payload's code
getStatusCodeOnly(apiAddr, path, resp) ==
    IF resp.transport # "ok"
    THEN [body |-> "none", err |-> [kind |-> "endpoints: transport"]]
    ELSE IF resp.status # 200
    THEN IF ~resp.readable
         THEN [body |-> "none",
               err  |-> SyncError(RequestURL(apiAddr, path), "read failed", resp.status)]
         ELSE IF resp.payload.json # "ok"
         THEN [body |-> "none",
               err  |-> SyncError(RequestURL(apiAddr, path), "invalid JSON", resp.status)]
         ELSE [body |-> "none",
               err  |-> SyncError(RequestURL(apiAddr, path),
                                  resp.payload.Message, resp.status)]
    ELSE [body |-> "open", err |-> nil]

\* a transport failure; otherwise a SyncError for every status but 200, with the
\* payload's message and code, or the read or decode failure and the HTTP status
get(apiAddr, path, resp) ==
    IF resp.transport # "ok"
    THEN [body |-> "none", err |-> [kind |-> "endpoints: transport"]]
    ELSE IF resp.status # 200
    THEN IF ~resp.readable
         THEN [body |-> "none",
               err  |-> SyncError(RequestURL(apiAddr, path), "read failed", resp.status)]
         ELSE IF resp.payload.json # "ok"
         THEN [body |-> "none",
               err  |-> SyncError(RequestURL(apiAddr, path), "invalid JSON", resp.status)]
         ELSE [body |-> "none",
               err  |-> SyncError(RequestURL(apiAddr, path),
                                  resp.payload.Message, resp.payload.Code)]
    ELSE [body |-> "open", err |-> nil]

(***************************************************************************)
(* The state.                                                              *)
(***************************************************************************)
VARIABLES
    service,           \* lb.service, fixed by New
    endpoints,         \* lb.endpoints
    currentEndpoint,   \* lb.currentEndpoint
    quit,              \* TRUE once lb.quit is closed
    wg,                \* the counter of lb.wg
    innerWg,           \* the counter of watchEndpoints' own WaitGroup
    ctxCanceled,       \* TRUE once watchEndpoints called cancel()
    panicked,          \* "none", or the run-time panic that ended the process
    pc,                \* where each task is
    body,              \* the response body each task holds: none, open, closed
    syncErr,           \* what the caller's last SyncEndpoints() returned
    syncGets,          \* GETs issued by the caller's current or last SyncEndpoints()
    startErr,          \* what StartBackgroundSync() returned
    startedAtShutdown, \* whether the loops had been started when Shutdown() was called
    streamFirst,       \* the object the open watch connection starts at
    streamPos,         \* update events decoded on the open watch connection
    watchApplied,      \* the sets the watcher installed on the open connection
    watchLast,         \* TRUE iff the last update was one of watchApplied
    lastObject,        \* the registry object of the last update
    calls,             \* the results of Next() since the set was last replaced
    callsFrom,         \* the cursor when the set was last replaced
    snapshot,          \* whether Endpoints() was called, and what the last call returned
    fmtArg,            \* the registry object of a formatEndpoints call on its own
    fmtRes,            \* what that call returned
    getArg,            \* the path and the server's answer of a get call on its own
    getRes             \* what that call returned

vars == <<service, endpoints, currentEndpoint, quit, wg, innerWg, ctxCanceled,
          panicked, pc, body, syncErr, syncGets, startErr, startedAtShutdown,
          streamFirst, streamPos, watchApplied, watchLast, lastObject,
          calls, callsFrom, snapshot, fmtArg, fmtRes, getArg, getRes>>

pureVars == <<fmtArg, fmtRes, getArg, getRes>>

lbVars == <<service, endpoints, currentEndpoint, quit, wg, innerWg, ctxCanceled,
            panicked, pc, body, syncErr, syncGets, startErr, startedAtShutdown,
            streamFirst, streamPos, watchApplied, watchLast, lastObject,
            calls, callsFrom, snapshot>>

selectorVars == <<currentEndpoint, calls>>
setVars == <<endpoints, lastObject, callsFrom, watchLast>>
lifecycleVars == <<quit, wg, innerWg, ctxCanceled, startErr, startedAtShutdown>>
callerVars == <<syncErr, syncGets>>
streamVars == <<streamFirst, streamPos, watchApplied>>

Tasks == {"caller", "reconcile", "watchEndpoints", "watch", "shutdown"}
Services == {"", "web"}

notCalled == [kind |-> "not called"]
pending == [kind |-> "pending"]
noObject == [Message |-> "none", Subsets |-> <<>>]

\* no get call on its own: a request that is never sent
noCall == [apiAddr |-> "", path |-> <<>>,
           resp |-> [transport |-> "fail", status |-> 0, readable |-> FALSE,
                     payload |-> [json |-> "malformed", Message |-> "", Code |-> 0]]]
\* a call that has not returned
notFormatted == [done |-> FALSE, eps |-> <<>>]
notReturned == [done |-> FALSE, body |-> "none", err |-> nil]

\* New: the load balancer as the constructor returns it
New ==
    /\ service \in Services
    /\ endpoints = <<>>
    /\ currentEndpoint = 0
    /\ quit = FALSE
    /\ wg = 0
    /\ innerWg = 0
    /\ ctxCanceled = FALSE
    /\ panicked = "none"
    /\ pc = [t \in Tasks |->
               IF t \in {"caller", "shutdown"} THEN "idle" ELSE "off"]
    /\ body = [t \in {"caller", "reconcile", "watch"} |-> "none"]
    /\ syncErr = notCalled
    /\ syncGets = 0
    /\ startErr = notCalled
    /\ startedAtShutdown = FALSE
    /\ streamFirst = 0
    /\ streamPos = 0
    /\ watchApplied = <<>>
    /\ watchLast = FALSE
    /\ lastObject = noObject
    /\ calls = <<>>
    /\ callsFrom = 0
    /\ snapshot = [taken |-> FALSE, eps |-> <<>>]

\* the program after New, with no formatEndpoints or get call made on its own
Init ==
    /\ New
    /\ fmtArg = noObject
    /\ fmtRes = notFormatted
    /\ getArg = noCall
    /\ getRes = notReturned

Running == panicked = "none"

(***************************************************************************)
(* The selector and the snapshot getter.                                   *)
(***************************************************************************)
\* a slip: the emptiness test written as len(lb.endpoints) < 0
NoEndpointsNegative(eps) == Len(eps) < 0

\* Next: len(lb.endpoints) <= 0
NoEndpoints(eps) == Len(eps) <= 0

\* a slip: the cursor is reset on every call
NextIndexAlwaysReset(cur, n) == 0

\* a slip: the range test written as currentEndpoint > len(lb.endpoints)
NextIndexOffByOne(cur, n) == IF cur > n THEN 0 ELSE cur

\* Next: a cursor at or past the end of the set is reset to 0 before use
NextIndex(cur, n) == IF cur >= n THEN 0 ELSE cur

\* a slip: lb.currentEndpoint++ is left out
NextCursorStay(i) == i

\* Next: lb.currentEndpoint++, after the read at index i
NextCursor(i) == i + 1

\* Next, under lb.mu.  Reading lb.endpoints[i] with i out of range panics.
\* The results are logged in calls, up to MaxCalls of them per set.
LbNext ==
    /\ Running
    /\ Len(calls) < MaxCalls
    /\ IF NoEndpoints(endpoints)
       THEN /\ calls' = Append(calls, [ep |-> ZeroEndpoint, err |-> ErrNoEndpoints,
                                       idx |-> -1])
            /\ UNCHANGED <<currentEndpoint, panicked>>
       ELSE LET i == NextIndex(currentEndpoint, Len(endpoints))
            IN  IF i < 0 \/ i >= Len(endpoints)
                THEN /\ panicked' = "index out of range"
                     /\ UNCHANGED <<currentEndpoint, calls>>
                ELSE /\ calls' = Append(calls, [ep |-> endpoints[i + 1], err |-> nil,
                                                idx |-> i])
                     /\ currentEndpoint' = NextCursor(i)
                     /\ UNCHANGED panicked
    /\ UNCHANGED <<service, pureVars, setVars, lifecycleVars, pc, body, callerVars,
                   streamVars, snapshot>>

\* a slip: make([]Endpoint, 0, len(lb.endpoints)), into which copy copies nothing
EndpointsCopyNothing(src) == <<>>

\* Endpoints: make([]Endpoint, len(lb.endpoints)) and copy, element by element
EndpointsCopy(src) == [i \in 1..Len(src) |-> src[i]]

\* Endpoints, under lb.mu.RLock
Endpoints ==
    /\ Running
    /\ snapshot' = [taken |-> TRUE, eps |-> EndpointsCopy(endpoints)]
    /\ UNCHANGED <<service, pureVars, selectorVars, setVars, lifecycleVars, panicked, pc, body,
                   callerVars, streamVars>>

(***************************************************************************)
(* update, and the one-shot sync of the caller and of the reconcile loop.  *)
(***************************************************************************)
\* a slip: the new backends are appended to the old ones
updateAppend(old, new) == old \o new

\* a slip: an empty result is taken for a failed sync and the old set is kept
updateKeepNonEmpty(old, new) == IF new = <<>> THEN old ELSE new

\* update: lb.endpoints = endpoints
update(old, new) == new

\* a slip: update also rewinds the cursor, lb.currentEndpoint = 0
ReplaceRewind(o) ==
    /\ endpoints' = update(endpoints, formatEndpoints(o))
    /\ lastObject' = o
    /\ callsFrom' = 0
    /\ calls' = <<>>
    /\ currentEndpoint' = 0

\* lb.update(formatEndpoints(o)), under lb.mu: the set is replaced and the
\* cursor is left as it is
Replace(o) ==
    /\ endpoints' = update(endpoints, formatEndpoints(o))
    /\ lastObject' = o
    /\ callsFrom' = currentEndpoint
    /\ calls' = <<>>
    /\ UNCHANGED currentEndpoint

\* a slip: syncEndpoints ends with return nil on every path
SyncReturnNil(t, err) ==
    IF t = "caller"
    THEN /\ pc' = [pc EXCEPT ![t] = "idle"]
         /\ syncErr' = nil
         /\ UNCHANGED syncGets
    ELSE /\ pc' = [pc EXCEPT ![t] = IF err # nil THEN "log" ELSE "select"]
         /\ UNCHANGED <<syncErr, syncGets>>

\* a slip: the reconcile loop returns when its sync has failed
SyncReturnExit(t, err) ==
    IF t = "caller"
    THEN /\ pc' = [pc EXCEPT ![t] = "idle"]
         /\ syncErr' = err
         /\ UNCHANGED syncGets
    ELSE /\ pc' = [pc EXCEPT ![t] = IF err # nil THEN "done" ELSE "select"]
         /\ UNCHANGED <<syncErr, syncGets>>

\* syncEndpoints returns err: to the caller of SyncEndpoints, or to the reconcile
\* loop, which logs an error before it goes back to its select
SyncReturn(t, err) ==
    IF t = "caller"
    THEN /\ pc' = [pc EXCEPT ![t] = "idle"]
         /\ syncErr' = err
         /\ UNCHANGED syncGets
    ELSE /\ pc' = [pc EXCEPT ![t] = IF err # nil THEN "log" ELSE "select"]
         /\ UNCHANGED <<syncErr, syncGets>>

\* a slip: the service check is left out
ServiceMissingNever(svc) == FALSE

\* SyncEndpoints and StartBackgroundSync: lb.service == ""
ServiceMissing(svc) == svc = ""

\* SyncEndpoints: the service check, then syncEndpoints up to its GET
SyncEndpoints ==
    /\ Running
    /\ pc["caller"] = "idle"
    /\ IF ServiceMissing(service)
       THEN /\ syncErr' = ErrMissingServiceName
            /\ syncGets' = 0
            /\ UNCHANGED <<pc, body>>
       ELSE /\ syncErr' = pending
            /\ syncGets' = 1
            /\ pc' = [pc EXCEPT !["caller"] = "get"]
            /\ body' = [body EXCEPT !["caller"] = "none"]
    /\ UNCHANGED <<service, pureVars, selectorVars, setVars, lifecycleVars, panicked,
                   streamVars, snapshot>>

\* syncEndpoints: lb.get returns
SyncGetReturn(t) ==
    /\ Running
    /\ pc[t] = "get"
    /\ \E resp \in Responses :
         LET r == get(DefaultAPIAddr, endpointsPath(DefaultNamespace, service), resp)
         IN  IF r.err # nil
             THEN /\ SyncReturn(t, r.err)
                  /\ UNCHANGED body
             ELSE /\ pc' = [pc EXCEPT ![t] = "decode"]
                  /\ body' = [body EXCEPT ![t] = r.body]
                  /\ UNCHANGED <<syncErr, syncGets>>
    /\ UNCHANGED <<service, pureVars, selectorVars, setVars, lifecycleVars, panicked,
                   streamVars, snapshot>>

\* syncEndpoints: the body is decoded; on success the set is replaced; the
\* deferred r.Close() runs on both paths
SyncDecode(t) ==
    /\ Running
    /\ pc[t] = "decode"
    /\ \E b \in SyncBodies :
         IF b.json # "ok"
         THEN /\ SyncReturn(t, [kind |-> "decode"])
              /\ UNCHANGED <<selectorVars, setVars>>
         ELSE /\ Replace(b.Object)
              /\ watchLast' = FALSE
              /\ SyncReturn(t, nil)
    /\ body' = [body EXCEPT ![t] = "closed"]
    /\ UNCHANGED <<service, pureVars, lifecycleVars, panicked, streamVars, snapshot>>

(***************************************************************************)
(* StartBackgroundSync, the reconcile loop and Shutdown.                   *)
(***************************************************************************)
\* StartBackgroundSync: the service check, then wg.Add(1) and go, twice.  The
\* loops are started once.
StartBackgroundSync ==
    /\ Running
    /\ pc["reconcile"] = "off"
    /\ IF ServiceMissing(service)
       THEN /\ startErr' = ErrMissingServiceName
            /\ UNCHANGED <<wg, pc>>
       ELSE /\ startErr' = nil
            /\ wg' = wg + 2
            /\ pc' = [pc EXCEPT !["watchEndpoints"] = "start", !["reconcile"] = "select"]
    /\ UNCHANGED <<service, pureVars, selectorVars, setVars, quit, innerWg, ctxCanceled,
                   startedAtShutdown, panicked, body, callerVars, streamVars, snapshot>>

\* reconcile: the select takes the timer; syncEndpoints runs up to its GET
ReconcileTick ==
    /\ Running
    /\ pc["reconcile"] = "select"
    /\ pc' = [pc EXCEPT !["reconcile"] = "get"]
    /\ body' = [body EXCEPT !["reconcile"] = "none"]
    /\ UNCHANGED <<service, pureVars, selectorVars, setVars, lifecycleVars, panicked,
                   callerVars, streamVars, snapshot>>

\* reconcile: lb.errorLog.Println(err), and back to the select
ReconcileLog ==
    /\ Running
    /\ pc["reconcile"] = "log"
    /\ pc' = [pc EXCEPT !["reconcile"] = "select"]
    /\ UNCHANGED <<service, pureVars, selectorVars, setVars, lifecycleVars, panicked,
                   body, callerVars, streamVars, snapshot>>

\* reconcile: the select takes <-lb.quit; the deferred lb.wg.Done() runs
ReconcileQuit ==
    /\ Running
    /\ pc["reconcile"] = "select"
    /\ quit
    /\ pc' = [pc EXCEPT !["reconcile"] = "done"]
    /\ wg' = wg - 1
    /\ UNCHANGED <<service, pureVars, selectorVars, setVars, quit, innerWg, ctxCanceled,
                   startErr, startedAtShutdown, panicked, body, callerVars,
                   streamVars, snapshot>>

\* a variant: the close is guarded, as by a sync.Once, and a later call goes on
\* to lb.wg.Wait()
ShutdownCloseOnce(from) ==
    /\ Running
    /\ pc["shutdown"] = from
    /\ quit' = TRUE
    /\ pc' = [pc EXCEPT !["shutdown"] = "wait"]
    /\ startedAtShutdown' = IF quit THEN startedAtShutdown ELSE (pc["reconcile"] # "off")
    /\ UNCHANGED panicked
    /\ UNCHANGED <<service, pureVars, selectorVars, setVars, wg, innerWg, ctxCanceled,
                   startErr, body, callerVars, streamVars, snapshot>>

\* Shutdown: close(lb.quit), which panics on a closed channel; the call is the
\* caller's first (from = "idle"), comes from another task while the first
\* waits (from = "wait") or follows a Shutdown() that returned
ShutdownClose(from) ==
    /\ Running
    /\ pc["shutdown"] = from
    /\ IF quit
       THEN /\ panicked' = "close of closed channel"
            /\ UNCHANGED <<quit, pc, startedAtShutdown>>
       ELSE /\ quit' = TRUE
            /\ pc' = [pc EXCEPT !["shutdown"] = "wait"]
            /\ startedAtShutdown' = (pc["reconcile"] # "off")
            /\ UNCHANGED panicked
    /\ UNCHANGED <<service, pureVars, selectorVars, setVars, wg, innerWg, ctxCanceled,
                   startErr, body, callerVars, streamVars, snapshot>>

\* a slip: Shutdown returns without lb.wg.Wait()
ShutdownReturnNoWait ==
    /\ Running
    /\ pc["shutdown"] = "wait"
    /\ pc' = [pc EXCEPT !["shutdown"] = "returned"]
    /\ UNCHANGED <<service, pureVars, selectorVars, setVars, lifecycleVars, panicked, body,
                   callerVars, streamVars, snapshot>>

\* Shutdown: lb.wg.Wait() returns
ShutdownReturn ==
    /\ Running
    /\ pc["shutdown"] = "wait"
    /\ wg = 0
    /\ pc' = [pc EXCEPT !["shutdown"] = "returned"]
    /\ UNCHANGED <<service, pureVars, selectorVars, setVars, lifecycleVars, panicked, body,
                   callerVars, streamVars, snapshot>>

(***************************************************************************)
(* watchEndpoints and its inner task watch.                                *)
(***************************************************************************)
\* watchEndpoints: wg.Add(1); go lb.watch(ctx, &wg)
WatchEndpointsStart ==
    /\ Running
    /\ pc["watchEndpoints"] = "start"
    /\ innerWg' = innerWg + 1
    /\ pc' = [pc EXCEPT !["watchEndpoints"] = "waitQuit", !["watch"] = "connect"]
    /\ UNCHANGED <<service, pureVars, selectorVars, setVars, quit, wg, ctxCanceled, startErr,
                   startedAtShutdown, panicked, body, callerVars, streamVars, snapshot>>

\* a slip: watchEndpoints waits for the inner task without calling cancel()
WatchEndpointsNoCancel ==
    /\ Running
    /\ pc["watchEndpoints"] = "waitQuit"
    /\ quit
    /\ pc' = [pc EXCEPT !["watchEndpoints"] = "waitInner"]
    /\ UNCHANGED <<service, pureVars, selectorVars, setVars, lifecycleVars, panicked, body,
                   callerVars, streamVars, snapshot>>

\* watchEndpoints: <-lb.quit; cancel()
WatchEndpointsCancel ==
    /\ Running
    /\ pc["watchEndpoints"] = "waitQuit"
    /\ quit
    /\ ctxCanceled' = TRUE
    /\ pc' = [pc EXCEPT !["watchEndpoints"] = "waitInner"]
    /\ UNCHANGED <<service, pureVars, selectorVars, setVars, quit, wg, innerWg, startErr,
                   startedAtShutdown, panicked, body, callerVars, streamVars, snapshot>>

\* watchEndpoints: wg.Wait() returns; the deferred lb.wg.Done() runs
WatchEndpointsDone ==
    /\ Running
    /\ pc["watchEndpoints"] = "waitInner"
    /\ innerWg = 0
    /\ wg' = wg - 1
    /\ pc' = [pc EXCEPT !["watchEndpoints"] = "done"]
    /\ UNCHANGED <<service, pureVars, selectorVars, setVars, quit, innerWg, ctxCanceled,
                   startErr, startedAtShutdown, panicked, body, callerVars,
                   streamVars, snapshot>>

\* watch: lb.get(ctx, path) returns; with the context cancelled the client fails
WatchGetReturn ==
    /\ Running
    /\ pc["watch"] = "connect"
    /\ \E resp \in Responses :
         /\ ctxCanceled => resp.transport # "ok"
         /\ LET r == get(DefaultAPIAddr, endpointsWatchPath(DefaultNamespace, service),
                         resp)
            IN  body' = [body EXCEPT !["watch"] = r.body]
    /\ pc' = [pc EXCEPT !["watch"] = "checked"]
    /\ UNCHANGED <<service, pureVars, selectorVars, setVars, lifecycleVars, panicked,
                   callerVars, streamVars, snapshot>>

\* a slip: after a failed get the loop continues without time.Sleep
WatchAfterGetNoSleep ==
    /\ Running
    /\ pc["watch"] = "checked"
    /\ IF ctxCanceled
       THEN /\ pc' = [pc EXCEPT !["watch"] = "done"]
            /\ innerWg' = innerWg - 1
            /\ UNCHANGED streamVars
       ELSE IF body["watch"] # "open"
       THEN /\ pc' = [pc EXCEPT !["watch"] = "connect"]
            /\ UNCHANGED <<innerWg, streamVars>>
       ELSE /\ pc' = [pc EXCEPT !["watch"] = "stream"]
            /\ \E first \in 0..MaxAddrs : streamFirst' = first
            /\ streamPos' = 0
            /\ watchApplied' = <<>>
            /\ UNCHANGED innerWg
    /\ UNCHANGED <<service, pureVars, selectorVars, setVars, quit, wg, ctxCanceled, startErr,
                   startedAtShutdown, panicked, body, callerVars, snapshot>>

\* watch: after get, return if ctx.Err() == context.Canceled (wg.Done is deferred);
\* on an error log it and sleep; otherwise start decoding the body
WatchAfterGet ==
    /\ Running
    /\ pc["watch"] = "checked"
    /\ IF ctxCanceled
       THEN /\ pc' = [pc EXCEPT !["watch"] = "done"]
            /\ innerWg' = innerWg - 1
            /\ UNCHANGED streamVars
       ELSE IF body["watch"] # "open"
       THEN /\ pc' = [pc EXCEPT !["watch"] = "sleep"]
            /\ UNCHANGED <<innerWg, streamVars>>
       ELSE /\ pc' = [pc EXCEPT !["watch"] = "stream"]
            /\ \E first \in 0..MaxAddrs : streamFirst' = first
            /\ streamPos' = 0
            /\ watchApplied' = <<>>
            /\ UNCHANGED innerWg
    /\ UNCHANGED <<service, pureVars, selectorVars, setVars, quit, wg, ctxCanceled, startErr,
                   startedAtShutdown, panicked, body, callerVars, snapshot>>

\* watch: time.Sleep(lb.retryDelay) is over; continue
WatchWake ==
    /\ Running
    /\ pc["watch"] = "sleep"
    /\ pc' = [pc EXCEPT !["watch"] = "connect"]
    /\ UNCHANGED <<service, pureVars, selectorVars, setVars, lifecycleVars, panicked, body,
                   callerVars, streamVars, snapshot>>

\* watch: the cancellation check at the head of the decode loop
WatchLoopHead ==
    /\ Running
    /\ pc["watch"] = "stream"
    /\ IF ctxCanceled
       THEN /\ body' = [body EXCEPT !["watch"] = "closed"]
            /\ pc' = [pc EXCEPT !["watch"] = "done"]
            /\ innerWg' = innerWg - 1
       ELSE /\ pc' = [pc EXCEPT !["watch"] = "decode"]
            /\ UNCHANGED <<body, innerWg>>
    /\ UNCHANGED <<service, pureVars, selectorVars, setVars, quit, wg, ctxCanceled, startErr,
                   startedAtShutdown, panicked, callerVars, streamVars, snapshot>>

\* a slip: a decode error or an ERROR event is handled as a failed connect is,
\* with a sleep before the next connect
WatchDecodeSleep ==
    /\ Running
    /\ pc["watch"] = "decode"
    /\ \E o \in NextItems(streamFirst, streamPos) :
         IF o.json # "ok" \/ o.Type = "ERROR"
         THEN /\ body' = [body EXCEPT !["watch"] = "closed"]
              /\ pc' = [pc EXCEPT !["watch"] = "sleep"]
              /\ streamFirst' = 0
              /\ streamPos' = 0
              /\ watchApplied' = <<>>
              /\ watchLast' = FALSE
              /\ UNCHANGED <<selectorVars, endpoints, lastObject, callsFrom>>
         ELSE /\ Replace(o.Object)
              /\ streamPos' = streamPos + 1
              /\ watchApplied' = Append(watchApplied, endpoints')
              /\ watchLast' = TRUE
              /\ pc' = [pc EXCEPT !["watch"] = "stream"]
              /\ UNCHANGED <<body, streamFirst>>
    /\ UNCHANGED <<service, pureVars, lifecycleVars, panicked, callerVars, snapshot>>

\* watch: decoder.Decode(&o) returns; a decode error or an ERROR event closes the
\* body and leaves the decode loop for the next connect; any other event is applied
WatchDecode ==
    /\ Running
    /\ pc["watch"] = "decode"
    /\ \E o \in NextItems(streamFirst, streamPos) :
         IF o.json # "ok" \/ o.Type = "ERROR"
         THEN /\ body' = [body EXCEPT !["watch"] = "closed"]
              /\ pc' = [pc EXCEPT !["watch"] = "connect"]
              /\ streamFirst' = 0
              /\ streamPos' = 0
              /\ watchApplied' = <<>>
              /\ watchLast' = FALSE
              /\ UNCHANGED <<selectorVars, endpoints, lastObject, callsFrom>>
         ELSE /\ Replace(o.Object)
              /\ streamPos' = streamPos + 1
              /\ watchApplied' = Append(watchApplied, endpoints')
              /\ watchLast' = TRUE
              /\ pc' = [pc EXCEPT !["watch"] = "stream"]
              /\ UNCHANGED <<body, streamFirst>>
    /\ UNCHANGED <<service, pureVars, lifecycleVars, panicked, callerVars, snapshot>>

(***************************************************************************)
(* The specifications.                                                     *)
(*                                                                         *)
(* Spec is the synchronization engine: the caller's one-shot sync, the     *)
(* two background loops and Shutdown, which may be called a second time    *)
(* while the first call waits or after it has returned.                    *)
(* ReaderSpec runs the selector and the snapshot getter against every      *)
(* writer of the set: the caller's sync, the reconcile loop and the        *)
(* watcher, all of them running for good (no Shutdown).                    *)
(* FairSpec is the engine with a single Shutdown() call, under the         *)
(* scheduling the run time gives: every task that can take its next step   *)
(* eventually takes it, every network call eventually returns, and a       *)
(* select whose <-lb.quit case is ready again and again eventually takes   *)
(* it (the run time picks among ready cases at random).                    *)
(***************************************************************************)
Sync ==
    \/ SyncEndpoints
    \/ SyncGetReturn("caller")
    \/ SyncDecode("caller")

Reconcile ==
    \/ ReconcileTick
    \/ SyncGetReturn("reconcile")
    \/ SyncDecode("reconcile")
    \/ ReconcileLog

Watch ==
    \/ WatchEndpointsStart
    \/ WatchGetReturn
    \/ WatchAfterGet
    \/ WatchWake
    \/ WatchLoopHead
    \/ WatchDecode

Stop ==
    \/ ShutdownClose("idle")
    \/ ShutdownReturn
    \/ ReconcileQuit
    \/ WatchEndpointsCancel
    \/ WatchEndpointsDone

Next ==
    \/ Sync
    \/ StartBackgroundSync
    \/ Reconcile
    \/ Watch
    \/ Stop
    \/ ShutdownClose("wait")
    \/ ShutdownClose("returned")

Spec == Init /\ [][Next]_vars

ReaderNext ==
    \/ LbNext
    \/ Endpoints
    \/ Sync
    \/ StartBackgroundSync
    \/ Reconcile
    \/ Watch

ReaderSpec == Init /\ [][ReaderNext]_vars

FairNext ==
    \/ Sync
    \/ StartBackgroundSync
    \/ Reconcile
    \/ Watch
    \/ Stop

Fairness ==
    /\ WF_vars(SyncGetReturn("reconcile"))
    /\ WF_vars(SyncDecode("reconcile"))
    /\ WF_vars(ReconcileLog)
    /\ SF_vars(ReconcileQuit)
    /\ WF_vars(WatchEndpointsStart)
    /\ WF_vars(WatchEndpointsCancel)
    /\ WF_vars(WatchEndpointsDone)
    /\ WF_vars(WatchGetReturn)
    /\ WF_vars(WatchAfterGet)
    /\ WF_vars(WatchWake)
    /\ WF_vars(WatchLoopHead)
    /\ WF_vars(WatchDecode)
    /\ WF_vars(ShutdownReturn)

FairSpec == Init /\ [][FairNext]_vars /\ Fairness

(***************************************************************************)
(* formatEndpoints and get, each called on its own on every input of a     *)
(* bounded domain: FormatSpec and GetSpec start with the argument chosen   *)
(* and their one action makes the call.                                    *)
(***************************************************************************)
SeqsUpTo(S, n) == UNION {[1..k -> S] : k \in 0..n}

FormatIPs == {"10.0.0.1", "10.0.0.2"}
FormatPorts == [Name : {"", "http", "metrics"}, Port : {0, 80, 9090}]

FormatSubsets ==
    [Addresses : SeqsUpTo([IP : FormatIPs], MaxAddrs),
     Ports     : SeqsUpTo(FormatPorts, MaxPorts)]

\* what may follow subsets[0] in the object
LaterSubsets ==
    {[Addresses |-> <<[IP |-> "10.9.9.9"]>>, Ports |-> <<[Name |-> "admin", Port |-> 443]>>],
     [Addresses |-> <<>>, Ports |-> <<>>]}

FormatObjects ==
    {[Message |-> "", Subsets |-> ss] :
        ss \in {<<>>} \cup {<<s>> : s \in FormatSubsets}
                     \cup {<<s, l>> : s \in FormatSubsets, l \in LaterSubsets}}

FormatInit ==
    /\ New
    /\ fmtArg \in FormatObjects
    /\ fmtRes = notFormatted
    /\ getArg = noCall
    /\ getRes = notReturned

\* formatEndpoints(fmtArg) is called and returns
FormatCall ==
    /\ ~fmtRes.done
    /\ fmtRes' = [done |-> TRUE, eps |-> formatEndpoints(fmtArg)]
    /\ UNCHANGED <<lbVars, fmtArg, getArg, getRes>>

FormatSpec == FormatInit /\ [][FormatCall]_vars

GetPayloads ==
    {[json |-> "malformed", Message |-> "", Code |-> 0],
     [json |-> "ok", Message |-> "not found", Code |-> 404],
     [json |-> "ok", Message |-> "", Code |-> 0],
     [json |-> "ok", Message |-> "boom", Code |-> 7]}

GetResponses ==
    [transport : {"ok", "fail"}, status : {200, 201, 204, 404, 500},
     readable : BOOLEAN, payload : GetPayloads]

GetRequests ==
    [apiAddr : {DefaultAPIAddr},
     path    : {endpointsPath(DefaultNamespace, "web"),
                endpointsWatchPath(DefaultNamespace, "web")},
     resp    : GetResponses]

GetInit ==
    /\ New
    /\ fmtArg = noObject
    /\ fmtRes = notFormatted
    /\ getArg \in GetRequests
    /\ getRes = notReturned

\* lb.get(ctx, path) is called and returns
GetCall ==
    /\ ~getRes.done
    /\ LET r == get(getArg.apiAddr, getArg.path, getArg.resp)
       IN  getRes' = [done |-> TRUE, body |-> r.body, err |-> r.err]
    /\ UNCHANGED <<lbVars, fmtArg, fmtRes, getArg>>

GetSpec == GetInit /\ [][GetCall]_vars

(***************************************************************************)
(* The properties.                                                         *)
(***************************************************************************)
Distinct(seq) == \A i, j \in DOMAIN seq : i # j => seq[i] # seq[j]

IndexPanic == panicked = "index out of range"

\* C1: round robin.  While the set holds N >= 1 distinct backends and has not
\* been replaced since the cursor was 0, the k-th Next() call returns, without
\* error, the backend at position ((k-1) mod N) of the set: the first N calls
\* return each backend once, in the order of the set, and call N+1 returns
\* what call 1 returned.
RoundRobin ==
    (callsFrom = 0 /\ Len(endpoints) >= 1 /\ Distinct(endpoints)) =>
        LET N == Len(endpoints)
        IN  /\ \A k \in DOMAIN calls :
                 /\ calls[k].err = nil
                 /\ calls[k].ep = endpoints[((k - 1) % N) + 1]
            /\ \A j, k \in DOMAIN calls :
                 (j < k /\ k <= N) => calls[j].ep # calls[k].ep
            /\ Len(calls) >= N + 1 => calls[N + 1].ep = calls[1].ep

\* C1 witness: a set of MaxAddrs backends installed at cursor 0 has been
\* walked through once and the call after that has returned.
RoundRobinWitness ==
    /\ callsFrom = 0
    /\ Len(endpoints) = MaxAddrs
    /\ Distinct(endpoints)
    /\ Len(calls) = MaxAddrs + 1
    /\ calls[MaxAddrs + 1].ep = endpoints[1]

\* C2: empty set.  While the set is empty every Next() call returns the zero
\* Endpoint with ErrNoEndpoints and reads no index of the set, whatever the
\* cursor is and whichever writer emptied the set; no call panics.
EmptySetFails ==
    Len(endpoints) = 0 =>
        /\ ~IndexPanic
        /\ \A k \in DOMAIN calls :
             calls[k] = [ep |-> ZeroEndpoint, err |-> ErrNoEndpoints, idx |-> -1]

\* C2 witness: Next() has failed on a set that an update emptied after
\* selections had moved the cursor.
EmptySetFailsWitness ==
    /\ Len(endpoints) = 0
    /\ lastObject # noObject
    /\ currentEndpoint > 0
    /\ Len(calls) >= 1
    /\ calls[1].err = ErrNoEndpoints

\* C3: shrink safety.  If the set was replaced, at cursor k, by a set of
\* length m with 1 <= m <= k, the first Next() call after that returns the
\* backend at index 0 of the new set; and every index Next() reads is within
\* the set it reads, so that no call panics.
ShrinkSafety ==
    /\ ~IndexPanic
    /\ \A k \in DOMAIN calls :
         calls[k].err = nil =>
            /\ 0 <= calls[k].idx /\ calls[k].idx < Len(endpoints)
            /\ calls[k].ep = endpoints[calls[k].idx + 1]
    /\ (Len(endpoints) >= 1 /\ Len(endpoints) <= callsFrom /\ Len(calls) >= 1) =>
            /\ calls[1].err = nil
            /\ calls[1].idx = 0
            /\ calls[1].ep = endpoints[1]

\* C3 witness: at cursor MaxAddrs the set was replaced by a shorter, non-empty
\* one, and Next() has been called since.
ShrinkSafetyWitness ==
    /\ callsFrom = MaxAddrs
    /\ Len(endpoints) >= 1
    /\ Len(endpoints) < MaxAddrs
    /\ Len(calls) >= 1

BackgroundTasks == {"reconcile", "watchEndpoints", "watch"}

ShutdownReturned == pc["shutdown"] = "returned" /\ startedAtShutdown

\* C4: shutdown barrier.  Once a Shutdown() called after a successful
\* StartBackgroundSync() has returned, the reconcile loop, the watch loop and
\* the inner watch task have all exited, they take no further step, and
\* neither the reconcile loop's sync nor the watcher's decode loop runs again:
\* no background update of the set follows the return.
ShutdownBarrier ==
    [][ /\ ShutdownReturned' => \A t \in BackgroundTasks : pc'[t] = "done"
        /\ ShutdownReturned =>
              /\ \A t \in BackgroundTasks : pc'[t] = pc[t]
              /\ ~(SyncDecode("reconcile") \/ WatchDecode)
              /\ wg' = 0 /\ innerWg' = 0 ]_vars

\* C4 witness: Shutdown() has returned after the loops had been started, the
\* watcher had applied an event and the caller is in a sync of its own.
ShutdownBarrierWitness ==
    /\ ShutdownReturned
    /\ body["watch"] = "closed"
    /\ lastObject # noObject
    /\ pc["caller"] = "decode"

\* C5: shutdown terminates.  Under fair scheduling, with every network call
\* returning and the watch call failing once its context is cancelled, a
\* single Shutdown() called after a successful StartBackgroundSync() returns,
\* wherever the two loops and the inner watch task are when it is called.
ShutdownTerminates ==
    (pc["shutdown"] = "wait" /\ startedAtShutdown) ~> (pc["shutdown"] = "returned")

\* C5 witness: Shutdown() was called while the reconcile loop was in a sync and
\* the watcher was decoding its stream, and it has returned.
ShutdownTerminatesWitness ==
    /\ ShutdownReturned
    /\ ctxCanceled
    /\ body["reconcile"] = "closed"
    /\ body["watch"] = "closed"
    /\ wg = 0

\* C6: missing service name.  With an empty service name SyncEndpoints() and
\* StartBackgroundSync() return ErrMissingServiceName, no GET is issued, no
\* task is started, no body is opened and the set and the cursor stay as New
\* left them.
MissingServiceName ==
    service = "" =>
        /\ syncErr \in {notCalled, ErrMissingServiceName}
        /\ startErr \in {notCalled, ErrMissingServiceName}
        /\ syncGets = 0
        /\ pc["caller"] = "idle"
        /\ \A t \in BackgroundTasks : pc[t] = "off"
        /\ wg = 0 /\ innerWg = 0
        /\ \A t \in DOMAIN body : body[t] = "none"
        /\ endpoints = <<>> /\ lastObject = noObject
        /\ currentEndpoint = 0

\* C6 witness: both calls have returned ErrMissingServiceName.
MissingServiceNameWitness ==
    /\ service = ""
    /\ syncErr = ErrMissingServiceName
    /\ startErr = ErrMissingServiceName

\* C7: watch consistency.  On an open watch connection the watcher has made
\* exactly one update per update event decoded, in arrival order: the i-th
\* update installed the transform of the i-th event.  While the latest of them
\* is the last write to the set, the set, and so the copy Endpoints() returns,
\* is the transform of the latest event and of no earlier one.
WatchConsistency ==
    pc["watch"] \in {"stream", "decode"} =>
        /\ Len(watchApplied) = streamPos
        /\ \A i \in 1..streamPos :
             watchApplied[i] = formatEndpoints(EventAt(streamFirst, i).Object)
        /\ watchLast =>
             /\ streamPos >= 1
             /\ endpoints = watchApplied[streamPos]
             /\ EndpointsCopy(endpoints)
                    = formatEndpoints(EventAt(streamFirst, streamPos).Object)

\* C7 witness: three events of different content have been applied on one
\* connection, the third is the last write, and the reader's copy was taken
\* before it.
WatchConsistencyWitness ==
    /\ pc["watch"] = "stream"
    /\ streamPos = 3
    /\ watchLast
    /\ Distinct(watchApplied)
    /\ endpoints = watchApplied[3]
    /\ snapshot.eps = watchApplied[2]

\* C8: snapshot atomicity.  The set is empty as New left it, or it is exactly
\* the transform of the one registry object passed to the update that took
\* the lock last, whichever of the caller's sync, the reconcile loop and the
\* watcher made it and whatever the readers do in between.
SnapshotAtomic ==
    endpoints = IF lastObject = noObject THEN <<>> ELSE formatEndpoints(lastObject)

\* C8 witness: the reconcile loop and the caller are both about to decode an
\* answer, the watcher is streaming, readers have run, and the set is the
\* transform of the largest object.
SnapshotAtomicWitness ==
    /\ lastObject = ObjectOfSize(MaxAddrs)
    /\ Len(endpoints) = MaxAddrs
    /\ pc["reconcile"] = "decode"
    /\ pc["caller"] = "decode"
    /\ pc["watch"] = "decode"
    /\ Len(calls) >= 1
    /\ snapshot.eps # <<>>
    /\ snapshot.eps # endpoints

\* C9: defensive copy.  An Endpoints() call returns the set as it is at the
\* instant of the call and changes neither the set nor the cursor; the
\* returned sequence changes by no other step, in particular by no update
\* and no Next().
DefensiveCopy ==
    [][ /\ Endpoints =>
              /\ snapshot'.taken /\ snapshot'.eps = endpoints
              /\ endpoints' = endpoints
              /\ currentEndpoint' = currentEndpoint
        /\ snapshot' # snapshot => Endpoints ]_vars

\* C9 witness: the copy taken of a non-empty set differs from the set that an
\* update has installed since, and Next() has been called on the new set.
DefensiveCopyWitness ==
    /\ snapshot.eps # <<>>
    /\ endpoints # <<>>
    /\ snapshot.eps # endpoints
    /\ Len(calls) >= 1
    /\ calls[1].err = nil

callerLeaves(at) == pc["caller"] = at /\ pc'["caller"] # at

\* C10: one-shot sync.  A SyncEndpoints() call with a service name issues one
\* GET.  When the GET fails the call returns that error (a transport error or
\* a SyncError) at once, and when the body does not decode it returns the
\* decode error, in both cases without another GET and without changing the
\* set or the cursor; when the body decodes, the set becomes the transform of
\* the decoded object, the cursor is unchanged and nil is returned.
SyncOneShot ==
    [][ /\ (pc["caller"] = "idle" /\ pc'["caller"] # "idle") =>
              /\ pc'["caller"] = "get"
              /\ syncGets' = 1
              /\ UNCHANGED <<endpoints, currentEndpoint>>
        /\ callerLeaves("get") =>
              /\ syncGets' = 1
              /\ UNCHANGED <<endpoints, currentEndpoint>>
              /\ \/ pc'["caller"] = "decode" /\ body'["caller"] = "open"
                 \/ /\ pc'["caller"] = "idle"
                    /\ syncErr'.kind \in {"endpoints: transport", "SyncError"}
        /\ callerLeaves("decode") =>
              /\ syncGets' = 1
              /\ pc'["caller"] = "idle"
              /\ body'["caller"] = "closed"
              /\ currentEndpoint' = currentEndpoint
              /\ \/ syncErr'.kind = "decode" /\ endpoints' = endpoints
                 \/ /\ syncErr' = nil
                    /\ lastObject' \in RegistryObjects
                    /\ endpoints' = formatEndpoints(lastObject') ]_vars

\* C10 witness: a SyncEndpoints() call has returned a SyncError after its one
\* GET, with a non-empty set and a moved cursor left in place.
SyncOneShotWitness ==
    /\ pc["caller"] = "idle"
    /\ syncErr.kind = "SyncError"
    /\ syncGets = 1
    /\ endpoints # <<>>
    /\ currentEndpoint > 0

(***************************************************************************)
(* The value of a decimal string, read digit by digit.                     *)
(***************************************************************************)
IsDigit(c) == \E d \in 0..9 : DigitChars[d + 1] = c

DigitValue(c) == CHOOSE d \in 0..9 : DigitChars[d + 1] = c

RECURSIVE DecimalValue(_)
DecimalValue(str) ==
    IF str = <<>> THEN 0
    ELSE 10 * DecimalValue(SubSeq(str, 1, Len(str) - 1)) + DigitValue(str[Len(str)])

\* str is the decimal numeral of n >= 0: digits only, no leading zero
IsDecimal(str, n) ==
    /\ Len(str) >= 1
    /\ \A i \in DOMAIN str : IsDigit(str[i])
    /\ Len(str) > 1 => str[1] # "0"
    /\ DecimalValue(str) = n

\* C11: transform correctness.  formatEndpoints returns the empty set for an
\* object without subsets.  Otherwise it returns one backend per address of
\* subsets[0], in address order, with Host the address IP, Port the decimal
\* numeral of the first port of subsets[0] ("" when it lists no port) and a
\* named-port map whose keys are exactly the non-empty port names of
\* subsets[0], each mapped to the decimal numeral of the (last) port of that
\* name; the result is the same with every later subset removed.
TransformCorrect ==
    fmtRes.done =>
        LET e == fmtArg
            out == fmtRes.eps
        IN  IF Len(e.Subsets) = 0
            THEN out = <<>>
            ELSE LET s == e.Subsets[1]
                     named == {j \in DOMAIN s.Ports : s.Ports[j].Name # ""}
                     last(j) == \A k \in named :
                                   s.Ports[k].Name = s.Ports[j].Name => k <= j
                 IN  /\ Len(out) = Len(s.Addresses)
                     /\ \A i \in DOMAIN out :
                          /\ out[i].Host = s.Addresses[i].IP
                          /\ IF Len(s.Ports) = 0
                             THEN out[i].Port = <<>>
                             ELSE IsDecimal(out[i].Port, s.Ports[1].Port)
                          /\ \A n \in DOMAIN out[i].Ports :
                               \E j \in named : s.Ports[j].Name = n
                          /\ \A j \in named :
                               /\ s.Ports[j].Name \in DOMAIN out[i].Ports
                               /\ last(j) => IsDecimal(out[i].Ports[s.Ports[j].Name],
                                                       s.Ports[j].Port)
                     /\ out = formatEndpoints([e EXCEPT !.Subsets = <<s>>])

\* C11 witness: the object whose subsets[0] has the addresses 10.0.0.1 and
\* 10.0.0.2 and the ports 80 and metrics:9090, followed by a second subset,
\* has been transformed into two backends with port "80" and the named-port
\* map metrics -> "9090".
TransformCorrectWitness ==
    /\ fmtRes.done
    /\ Len(fmtArg.Subsets) = 2
    /\ fmtArg.Subsets[1] =
           [Addresses |-> <<[IP |-> "10.0.0.1"], [IP |-> "10.0.0.2"]>>,
            Ports |-> <<[Name |-> "", Port |-> 80], [Name |-> "metrics", Port |-> 9090]>>]
    /\ Len(fmtArg.Subsets[2].Addresses) = 1
    /\ fmtRes.eps =
           <<[Host |-> "10.0.0.1", Port |-> <<"8", "0">>,
              Ports |-> ("metrics" :> <<"9", "0", "9", "0">>)],
             [Host |-> "10.0.0.2", Port |-> <<"8", "0">>,
              Ports |-> ("metrics" :> <<"9", "0", "9", "0">>)]>>

TransportFailed(r) == r.err.kind = "endpoints: transport" /\ r.body = "none"
RemoteFailed(r) == r.err.kind = "SyncError" /\ r.body = "none"
BodyReturned(r) == r.err = nil /\ r.body = "open"

\* C12: directory client classification.  A get whose transport fails
\* returns a transport error and no body.  A get answered with a status
\* outside 200..299 returns no body and a SyncError with the request URL and
\* the message and code of the decoded payload or, when the body cannot be
\* read or decoded, the text of that failure and the HTTP status.  A get
\* answered with 200 returns the open body and a nil error, and an open body
\* is returned for no other status.  Every call has exactly one of the three
\* outcomes.
GetClassification ==
    getRes.done =>
        LET resp == getArg.resp
            url == <<"http://", getArg.apiAddr>> \o getArg.path
        IN  /\ resp.transport # "ok" => TransportFailed(getRes)
            /\ (resp.transport = "ok" /\ resp.status \notin 200..299) =>
                  /\ RemoteFailed(getRes)
                  /\ getRes.err.URL = url
                  /\ (resp.readable /\ resp.payload.json = "ok") =>
                        /\ getRes.err.Message = resp.payload.Message
                        /\ getRes.err.Code = resp.payload.Code
                  /\ ~resp.readable =>
                        /\ getRes.err.Message = "read failed"
                        /\ getRes.err.Code = resp.status
                  /\ (resp.readable /\ resp.payload.json # "ok") =>
                        /\ getRes.err.Message = "invalid JSON"
                        /\ getRes.err.Code = resp.status
            /\ (resp.transport = "ok" /\ resp.status = 200) => BodyReturned(getRes)
            /\ BodyReturned(getRes) => (resp.transport = "ok" /\ resp.status = 200)
            /\ Cardinality({k \in 1..3 :
                              \/ k = 1 /\ TransportFailed(getRes)
                              \/ k = 2 /\ RemoteFailed(getRes)
                              \/ k = 3 /\ BodyReturned(getRes)}) = 1

\* C12 witness: the endpoints GET answered with 404 and the payload
\* {"message": "not found", "code": 404} has returned the SyncError with that
\* message and code.
GetClassificationWitness ==
    /\ getRes.done
    /\ getArg.resp.transport = "ok"
    /\ getArg.resp.status = 404
    /\ getArg.resp.readable
    /\ getArg.resp.payload = [json |-> "ok", Message |-> "not found", Code |-> 404]
    /\ getRes.body = "none"
    /\ getRes.err =
          [kind |-> "SyncError",
           URL |-> <<"http://", "127.0.0.1:8001", "/api/v1/namespaces/", "default",
                     "/endpoints/", "web">>,
           Message |-> "not found", Code |-> 404]

LastCall == calls[Len(calls)]

Selected == calls # <<>> /\ LastCall.err = nil

\* C13 as stated: after a successful Next() on a set of length L the cursor
\* is (index of the returned backend + 1) mod L, a value in 0..L-1.
CursorModLength ==
    Selected =>
        /\ currentEndpoint = (LastCall.idx + 1) % Len(endpoints)
        /\ currentEndpoint \in 0..(Len(endpoints) - 1)

\* C13, amended: after a successful Next() on a set of length L the cursor is
\* the index of the returned backend + 1, not reduced mod L, a value in 1..L;
\* a cursor left at L is reset to 0 by the following Next() before the read,
\* so that successive selections on the same set are at successive indices
\* mod L.
CursorAdvance ==
    Selected =>
        /\ currentEndpoint = LastCall.idx + 1
        /\ currentEndpoint \in 1..Len(endpoints)
        /\ \A k \in 1..(Len(calls) - 1) :
              calls[k + 1].idx = (calls[k].idx + 1) % Len(endpoints)

\* C13 witness: Next() has returned the last backend of a set of MaxAddrs,
\* leaving the cursor at MaxAddrs, and the call after it has returned the
\* first.
CursorAdvanceWitness ==
    /\ Len(endpoints) = MaxAddrs
    /\ Len(calls) >= 2
    /\ calls[Len(calls) - 1].idx = MaxAddrs - 1
    /\ LastCall.idx = 0
    /\ currentEndpoint = 1

\* what a Next() call made in the current state reads: the index i of the set
SelectsAt(i) ==
    /\ ~NoEndpoints(endpoints)
    /\ NextIndex(currentEndpoint, Len(endpoints)) = i

\* C14 as stated: a step that replaces the set leaves the cursor as it is,
\* and when the new set is at least as long as the old one a Next() call
\* made after the step reads the new set at the unchanged cursor.
UpdateKeepsIndex ==
    [][ endpoints' # endpoints =>
          /\ currentEndpoint' = currentEndpoint
          /\ Len(endpoints') >= Len(endpoints) => SelectsAt(currentEndpoint)' ]_vars

\* C14, amended: a step that replaces the set changes neither the cursor nor
\* the copy a reader holds, whatever the lengths of the old and the new set;
\* the first Next() call after the update returns the backend of the new set
\* at the unchanged cursor when the cursor is below the length of the new
\* set, and the backend at index 0 otherwise, which is also what happens
\* after an update to an equal or a greater length when the cursor stood at
\* or past the new length.
UpdateFrame ==
    [][ /\ endpoints' # endpoints =>
              /\ currentEndpoint' = currentEndpoint
              /\ snapshot' = snapshot
              /\ callsFrom' = currentEndpoint
        /\ (calls' # <<>> /\ calls'[1].err = nil) =>
              LET i == IF callsFrom' < Len(endpoints') THEN callsFrom' ELSE 0
              IN  /\ calls'[1].idx = i
                  /\ calls'[1].ep = endpoints'[i + 1] ]_vars

\* C14 witness: with the cursor at MaxAddrs a shorter set was replaced by one
\* of MaxAddrs backends, and the Next() call after that update has returned
\* the backend at index 0.
UpdateFrameWitness ==
    /\ callsFrom = MaxAddrs
    /\ Len(endpoints) = MaxAddrs
    /\ Len(calls) = 1
    /\ calls[1].idx = 0

\* C15 as stated: no task that has left the code that opened a response
\* body leaves the body open.  A SyncEndpoints() call that has returned, a
\* reconcile loop whose sync has returned, and a watcher that has ended,
\* sleeps or is connecting again hold no open body.
BodiesReleased ==
    /\ pc["caller"] = "idle" => body["caller"] # "open"
    /\ pc["reconcile"] \in {"log", "select", "done"} => body["reconcile"] # "open"
    /\ pc["watch"] \in {"connect", "sleep", "done"} => body["watch"] # "open"

Exits(t) == pc[t] # "done" /\ pc'[t] = "done"

\* C16: the background loops survive errors.  The reconcile loop ends only
\* from its select and only with lb.quit closed, the watch task ends only
\* with its context cancelled; a step of either loop, whatever the GET or
\* the decode returned, starts no panic and changes nothing the caller's
\* SyncEndpoints() returned; a failed sync of the reconcile loop is logged
\* and the loop is back at its select, where the next tick is taken and
\* issues the next GET.
LoopsSurvive ==
    [][ /\ Exits("reconcile") => (quit /\ pc["reconcile"] = "select")
        /\ Exits("watch") => ctxCanceled
        /\ (Reconcile \/ Watch) =>
              /\ panicked' = "none"
              /\ syncErr' = syncErr
        /\ (SyncGetReturn("reconcile") \/ SyncDecode("reconcile")) =>
              pc'["reconcile"] \in {"decode", "log", "select"}
        /\ pc["reconcile"] = "log" =>
              /\ ENABLED ReconcileLog
              /\ pc'["reconcile"] \in {"log", "select"}
        /\ pc["reconcile"] = "select" =>
              /\ ENABLED ReconcileTick
              /\ ReconcileTick => pc'["reconcile"] = "get"
        /\ (WatchGetReturn \/ WatchAfterGet \/ WatchWake \/ WatchLoopHead \/ WatchDecode) =>
              \/ pc'["watch"] \in {"checked", "sleep", "connect", "stream", "decode"}
              \/ ctxCanceled ]_vars

\* C16 witness: a sync of the reconcile loop has failed and is being logged,
\* the watcher sleeps after a failed connect, an earlier update is in place
\* and lb.quit is open.
LoopsSurviveWitness ==
    /\ pc["reconcile"] = "log"
    /\ pc["watch"] = "sleep"
    /\ lastObject # noObject
    /\ ~quit

\* C17: watcher stream failure handling.  A decode on the watch connection
\* either applies the next update event of the stream, or, when the event is
\* of type ERROR or the decode fails, closes the body, leaves the set (with
\* every event applied before), the cursor and the readers' copy as they are
\* and goes straight to the next connect, from which the next step of the
\* watcher is the return of that GET: no sleep comes in between.
StreamFailure ==
    [][ /\ (pc["watch"] = "decode" /\ pc'["watch"] # "decode") =>
              \/ /\ pc'["watch"] = "stream"
                 /\ body'["watch"] = "open"
                 /\ streamPos' = streamPos + 1
                 /\ endpoints' = formatEndpoints(EventAt(streamFirst, streamPos').Object)
                 /\ currentEndpoint' = currentEndpoint
              \/ /\ pc'["watch"] = "connect"
                 /\ body'["watch"] = "closed"
                 /\ endpoints' = endpoints
                 /\ lastObject' = lastObject
                 /\ currentEndpoint' = currentEndpoint
                 /\ snapshot' = snapshot
        /\ (pc["watch"] = "connect" /\ pc'["watch"] # "connect") =>
              /\ WatchGetReturn
              /\ pc'["watch"] = "checked" ]_vars

\* C17 witness: the watch connection has failed after events were applied on
\* it; the body is closed, the watcher is connecting again and the set and
\* the moved cursor are in place.
StreamFailureWitness ==
    /\ pc["watch"] = "connect"
    /\ body["watch"] = "closed"
    /\ syncErr = notCalled
    /\ endpoints # <<>>
    /\ currentEndpoint > 0

\* C18: watcher connect retry.  When the watch GET has returned, a cancelled
\* context ends the watch task at once, with no sleep and no further GET;
\* otherwise a failed GET sends the watcher to its sleep and a successful one
\* to the decode loop.  From the sleep the watcher can always go on, and goes
\* on to the next GET only; the state holds no count of attempts, so the
\* cycle repeats without bound.  The steps from the return of the GET to the
\* next GET change neither the set nor the cursor.
ConnectRetry ==
    [][ /\ (pc["watch"] = "checked" /\ pc'["watch"] # "checked") =>
              /\ ctxCanceled => pc'["watch"] = "done"
              /\ (~ctxCanceled /\ body["watch"] # "open") => pc'["watch"] = "sleep"
              /\ (~ctxCanceled /\ body["watch"] = "open") => pc'["watch"] = "stream"
        /\ pc["watch"] = "sleep" =>
              /\ ENABLED WatchWake
              /\ pc'["watch"] \in {"sleep", "connect"}
              /\ body'["watch"] = body["watch"]
        /\ pc["watch"] = "done" => pc'["watch"] = "done"
        /\ (WatchGetReturn \/ WatchAfterGet \/ WatchWake) =>
              /\ endpoints' = endpoints
              /\ lastObject' = lastObject
              /\ currentEndpoint' = currentEndpoint ]_vars

\* C18 witness: with the context not cancelled the watcher sleeps after a
\* failed connect that followed a connection on which it had applied events.
ConnectRetryWitness ==
    /\ pc["watch"] = "sleep"
    /\ body["watch"] = "none"
    /\ ~ctxCanceled
    /\ syncErr = notCalled
    /\ pc["reconcile"] = "select"
    /\ endpoints # <<>>

NextReturns == Len(calls') = Len(calls) + 1

\* C19 as stated: every Next() call, failed or not, leaves the cursor at a
\* value different from the one it found.
NextAlwaysMovesCursor ==
    [][ NextReturns => currentEndpoint' # currentEndpoint ]_vars

\* C19, amended: a Next() call that fails with ErrNoEndpoints leaves the
\* cursor as it found it.  A successful call writes the cursor, to the index
\* it read plus one, and the value written differs from the value found
\* except on a set of one backend with the cursor at 1, where the cursor is
\* reset to 0 and advanced to 1 again.
NextMovesCursor ==
    [][ NextReturns =>
          LET call == calls'[Len(calls')]
          IN  /\ call.err = ErrNoEndpoints <=> Len(endpoints) = 0
              /\ call.err = ErrNoEndpoints => currentEndpoint' = currentEndpoint
              /\ call.err = nil =>
                    /\ currentEndpoint' = call.idx + 1
                    /\ currentEndpoint' = currentEndpoint
                          <=> (Len(endpoints) = 1 /\ currentEndpoint = 1) ]_vars

\* C19 witness: a second Next() call on a set of one backend has returned and
\* the cursor is 1, as it was before the call.
NextMovesCursorWitness ==
    /\ Len(endpoints) = 1
    /\ Len(calls) >= 2
    /\ calls[2].err = nil
    /\ currentEndpoint = 1

\* C20: Shutdown is not idempotent.  A Shutdown() call made while an earlier
\* call waits in lb.wg.Wait(), or after an earlier call has returned, finds
\* lb.quit closed and panics in close(lb.quit): it neither waits nor returns,
\* the first call's progress is left where it was, and the process takes no
\* step after the panic.  The first call finds lb.quit open and closes it.
ShutdownTwicePanics ==
    [][ /\ panicked = "none"
        /\ (ShutdownClose("wait") \/ ShutdownClose("returned")) =>
              /\ quit
              /\ panicked' = "close of closed channel"
              /\ pc' = pc
        /\ ShutdownClose("idle") =>
              /\ ~quit /\ quit'
              /\ panicked' = "none"
        /\ quit => quit' ]_vars

\* C20 witness: after a Shutdown() that stopped the loops and returned, a
\* second call has panicked.
ShutdownTwicePanicsWitness ==
    /\ pc["shutdown"] = "returned"
    /\ startedAtShutdown
    /\ quit
    /\ panicked = "close of closed channel"

====
